---------------------------- MODULE Spec2Model ----------------------------
(***************************************************************************)
(* Zambia Mining Site Planner (src/app.py): the load / filter / summarise  *)
(* / select pipeline of run_app, one action per script run.                *)
(*                                                                         *)
(* Encoding of the data:                                                   *)
(*   - provinces, districts, commodities and statuses are small naturals   *)
(*     (so that sorted() is meaningful); commodity 0 is a missing (NaN)    *)
(*     Primary_Commodity cell;                                             *)
(*   - Distance_From_Chingola_km and Travel_Time_From_Chingola_Hours are   *)
(*     reals with one decimal, held in tenths (405 is 40.5 km);            *)
(*   - a CSV coordinate cell is [txt, v]: txt "num" (v whole degrees),     *)
(*     "empty" (missing), "alpha" (non-numeric text) or "inf";             *)
(*   - a float is [k, v]: k "num", "inf" or "nan";                         *)
(*   - an optional output is a sequence of length 0 (absent) or 1.         *)
(***************************************************************************)
EXTENDS Naturals, Integers, Sequences, FiniteSets

\* ------------------------------------------------------------------ bounds
\* Longest CSV file (number of data rows) the model draws.
MaxRows == 2

\* ------------------------------------------------------- program constants
\* step=50 of the distance slider.
SliderStep == 50

\* ------------------------------------------------------------------ floats
NaN == [k |-> "nan", v |-> 0]

Inf == [k |-> "inf", v |-> 0]

Num(x) == [k |-> "num", v |-> x]

NumCell(x) == [txt |-> "num", v |-> x]

EmptyCell == [txt |-> "empty", v |-> 0]

AlphaCell == [txt |-> "alpha", v |-> 0]

InfCell == [txt |-> "inf", v |-> 0]

\* ------------------------------------------------------------- the CSV rows
\* One CSV data row: the columns run_app reads.
Row(name, prov, dist, comm, stat, km10, hr10, lat, lon) ==
    [Property_Name |-> name, Province |-> prov, Clean_District |-> dist,
     Primary_Commodity |-> comm, Status |-> stat,
     Distance_From_Chingola_km |-> km10,
     Travel_Time_From_Chingola_Hours |-> hr10,
     Latitude |-> lat, Longitude |-> lon]

\* The rows a file is drawn from.  Three well-formed properties: two at the
\* same distance (50.0 km), the third the farthest, at a fractional distance
\* (60.5 km) and with no primary commodity; province 1 holds district 1,
\* province 2 holds districts 2 and 3.  Three rows with a bad coordinate cell:
\* non-numeric latitude, missing longitude, and infinite latitude with a
\* longitude of 200 degrees.
RawRows ==
    { Row(1, 1, 1, 1, 1, 500, 15, NumCell(-12), NumCell(27)),
      Row(2, 2, 2, 2, 2, 500, 15, NumCell(-15), NumCell(28)),
      Row(3, 2, 3, 0, 1, 605, 21, NumCell(-16), NumCell(29)),
      Row(4, 1, 1, 1, 1, 500, 15, AlphaCell, NumCell(27)),
      Row(5, 1, 1, 1, 1, 500, 15, NumCell(-12), EmptyCell),
      Row(6, 1, 1, 1, 1, 500, 15, InfCell, NumCell(200)) }

\* The files that exist: any sequence of at most MaxRows different rows.
Files ==
    UNION { { f \in [1..n -> RawRows] :
                \A i, j \in 1..n : i # j => f[i] # f[j] } : n \in 0..MaxRows }

\* -------------------------------------------------------- sequence helpers
SeqToSet(s) == { s[i] : i \in 1..Len(s) }

\* Series.unique(): the values in order of first appearance.
RECURSIVE Unique(_)
Unique(s) ==
    IF s = << >> THEN << >>
    ELSE LET front == Unique(SubSeq(s, 1, Len(s) - 1))
             last == s[Len(s)]
         IN IF last \in SeqToSet(front) THEN front ELSE Append(front, last)

\* sorted(values): ascending.
RECURSIVE Sorted(_)
Sorted(S) ==
    IF S = {} THEN << >>
    ELSE LET m == CHOOSE x \in S : \A y \in S : x <= y
         IN <<m>> \o Sorted(S \ {m})

\* df[column] as a sequence of values.
Column(df, col) == [i \in 1..Len(df) |-> df[i][col]]

\* Series.dropna() on the Primary_Commodity column (0 is NaN).
DropNaCommodity(s) == SelectSeq(s, LAMBDA c : c # 0)

\* Series.nunique(): distinct non-missing values.
NUnique(s) == Cardinality(SeqToSet(DropNaCommodity(s)))

RECURSIVE Sum(_)
Sum(s) == IF s = << >> THEN 0 ELSE s[1] + Sum(Tail(s))

RECURSIVE MaxOf(_)
MaxOf(s) ==
    IF Len(s) = 1 THEN s[1]
    ELSE LET m == MaxOf(Tail(s)) IN IF s[1] >= m THEN s[1] ELSE m

\* int(x) of a non-negative real held in tenths: truncation to whole km.
IntKm(km10) == km10 \div 10

\* ---------------------------------------------------------------- load_data
\* pd.to_numeric(cell, errors='coerce'): text that is no number becomes NaN;
\* "inf" parses as the float infinity.
ToNumeric(cell) ==
    CASE cell.txt = "num" -> Num(cell.v)
      [] cell.txt = "inf" -> Inf
      [] OTHER -> NaN

\* pd.read_csv: the rows under a RangeIndex (the label idx stays with the row
\* through dropna and every later filter), then the two to_numeric columns.
ReadCsv(rows) ==
    [i \in 1..Len(rows) |->
        [idx |-> i - 1,
         Property_Name |-> rows[i].Property_Name,
         Province |-> rows[i].Province,
         Clean_District |-> rows[i].Clean_District,
         Primary_Commodity |-> rows[i].Primary_Commodity,
         Status |-> rows[i].Status,
         Distance_From_Chingola_km |-> rows[i].Distance_From_Chingola_km,
         Travel_Time_From_Chingola_Hours |-> rows[i].Travel_Time_From_Chingola_Hours,
         Latitude |-> ToNumeric(rows[i].Latitude),
         Longitude |-> ToNumeric(rows[i].Longitude)]]

\* Faulty variant of DropNaCoords: dropna(subset=['Latitude']), the longitude forgotten.
DropNaLatitudeOnly(df) ==
    SelectSeq(df, LAMBDA r : r.Latitude # NaN)

\* df.dropna(subset=['Latitude', 'Longitude']): a row goes when either is NaN.
DropNaCoords(df) ==
    SelectSeq(df, LAMBDA r : r.Latitude # NaN /\ r.Longitude # NaN)

\* load_data(file_path): the frame, and whether st.error reported a missing file.
load_data(f) ==
    IF f.exists
    THEN [df |-> DropNaCoords(ReadCsv(f.rows)), error |-> FALSE]
    ELSE [df |-> << >>, error |-> TRUE]

\* ------------------------------------------------------------------ widgets
\* options of the province multiselect: sorted(df['Province'].unique())
ProvinceOptions(df) == Sorted(SeqToSet(Unique(Column(df, "Province"))))

\* Faulty variant of AvailableDistricts: the province selection is ignored.
AvailableDistrictsOfAll(df, selProv) ==
    Sorted(SeqToSet(Unique(Column(df, "Clean_District"))))

\* available_districts, as the options list handed to the district multiselect.
AvailableDistricts(df, selProv) ==
    IF selProv # {}
    THEN Sorted(SeqToSet(Unique(Column(
             SelectSeq(df, LAMBDA r : r.Province \in selProv), "Clean_District"))))
    ELSE Sorted(SeqToSet(Unique(Column(df, "Clean_District"))))

\* options of the commodity multiselect: sorted(...dropna().unique())
CommodityOptions(df) ==
    Sorted(SeqToSet(Unique(DropNaCommodity(Column(df, "Primary_Commodity")))))

\* options of the status multiselect.
StatusOptions(df) == Sorted(SeqToSet(Unique(Column(df, "Status"))))

\* max_value and initial value of the slider: int(df[distance].max()).
SliderMax(df) == IntKm(MaxOf(Column(df, "Distance_From_Chingola_km")))

\* The positions the slider can take: min_value + k*step up to max_value, and
\* max_value itself (the initial value).
SliderValues(df) ==
    { v \in 0..SliderMax(df) : v % SliderStep = 0 } \cup { SliderMax(df) }

\* Faulty variant of Multiselect: the held selection survives a change of options.
MultiselectKeepsHeld(options, held, lastOptions) == held

\* st.multiselect(options, default=[]) with no key: the widget is identified
\* by its arguments, so it returns the held selection while the options are
\* the ones it was last built with, and the default once they differ.
Multiselect(options, held, lastOptions) ==
    IF options = lastOptions THEN held ELSE {}

\* Faulty variant of ApplyFilters: the status test is made on df, not on df_filtered,
\* so it undoes the narrowing of the three tests before it.
ApplyFiltersStatusOnStore(df, selProv, selDist, selComm, selStat, maxDist) ==
    LET f0 == df
        f1 == IF selProv # {}
              THEN SelectSeq(f0, LAMBDA r : r.Province \in selProv) ELSE f0
        f2 == IF selDist # {}
              THEN SelectSeq(f1, LAMBDA r : r.Clean_District \in selDist) ELSE f1
        f3 == IF selComm # {}
              THEN SelectSeq(f2, LAMBDA r : r.Primary_Commodity \in selComm) ELSE f2
        f4 == IF selStat # {}
              THEN SelectSeq(f0, LAMBDA r : r.Status \in selStat) ELSE f3
        f5 == SelectSeq(f4, LAMBDA r : r.Distance_From_Chingola_km <= maxDist * 10)
    IN [store |-> df, view |-> f5]

\* Faulty variant of ApplyFilters: the tests narrow df itself (no copy), so the
\* session's frame becomes the view.
ApplyFiltersInPlace(df, selProv, selDist, selComm, selStat, maxDist) ==
    LET f0 == df
        f1 == IF selProv # {}
              THEN SelectSeq(f0, LAMBDA r : r.Province \in selProv) ELSE f0
        f2 == IF selDist # {}
              THEN SelectSeq(f1, LAMBDA r : r.Clean_District \in selDist) ELSE f1
        f3 == IF selComm # {}
              THEN SelectSeq(f2, LAMBDA r : r.Primary_Commodity \in selComm) ELSE f2
        f4 == IF selStat # {}
              THEN SelectSeq(f3, LAMBDA r : r.Status \in selStat) ELSE f3
        f5 == SelectSeq(f4, LAMBDA r : r.Distance_From_Chingola_km <= maxDist * 10)
    IN [store |-> f5, view |-> f5]

\* ------------------------------------------------------------ apply filters
\* Lines 243-257: each non-empty selection narrows the copy; the distance
\* test always applies.  store is the frame the session keeps (df itself is
\* never assigned to), view is df_filtered.
ApplyFilters(df, selProv, selDist, selComm, selStat, maxDist) ==
    LET f0 == df
        f1 == IF selProv # {}
              THEN SelectSeq(f0, LAMBDA r : r.Province \in selProv) ELSE f0
        f2 == IF selDist # {}
              THEN SelectSeq(f1, LAMBDA r : r.Clean_District \in selDist) ELSE f1
        f3 == IF selComm # {}
              THEN SelectSeq(f2, LAMBDA r : r.Primary_Commodity \in selComm) ELSE f2
        f4 == IF selStat # {}
              THEN SelectSeq(f3, LAMBDA r : r.Status \in selStat) ELSE f3
        f5 == SelectSeq(f4, LAMBDA r : r.Distance_From_Chingola_km <= maxDist * 10)
    IN [store |-> df, view |-> f5]

\* ------------------------------------------------------------------ metrics
\* The "N/A" shown in place of a mean.
NA == [k |-> "N/A", sum |-> 0, n |-> 0]

\* Series.mean(): the exact quotient sum/n, and NaN (no exception) when empty.
Mean(s) ==
    IF s = << >> THEN [k |-> "nan", sum |-> 0, n |-> 0]
    ELSE [k |-> "mean", sum |-> Sum(s), n |-> Len(s)]

\* Faulty variant of Summarize: the "if not df_filtered.empty" guards are missing.
SummarizeUnguarded(view, df) ==
    [count |-> Len(view),
     delta |-> IF Len(view) # Len(df) THEN <<Len(view) - Len(df)>> ELSE << >>,
     avg_distance |-> Mean(Column(view, "Distance_From_Chingola_km")),
     avg_time |-> Mean(Column(view, "Travel_Time_From_Chingola_Hours")),
     unique_commodities |-> NUnique(Column(view, "Primary_Commodity")),
     unique_provinces |-> Cardinality(SeqToSet(Column(view, "Province")))]

\* Lines 264-292: the five summary cards.
Summarize(view, df) ==
    [count |-> Len(view),
     delta |-> IF Len(view) # Len(df) THEN <<Len(view) - Len(df)>> ELSE << >>,
     avg_distance |-> IF view # << >>
                      THEN Mean(Column(view, "Distance_From_Chingola_km"))
                      ELSE NA,
     avg_time |-> IF view # << >>
                  THEN Mean(Column(view, "Travel_Time_From_Chingola_Hours"))
                  ELSE NA,
     unique_commodities |-> IF view # << >>
                            THEN NUnique(Column(view, "Primary_Commodity")) ELSE 0,
     unique_provinces |-> IF view # << >>
                          THEN Cardinality(SeqToSet(Column(view, "Province"))) ELSE 0]

\* df.nsmallest(1, distance).iloc[0] on a non-empty frame (keep='first'): a
\* later row replaces the candidate only when strictly smaller.
RECURSIVE NSmallestScan(_, _, _)
NSmallestScan(view, i, best) ==
    IF i > Len(view) THEN view[best]
    ELSE NSmallestScan(view, i + 1,
            IF view[i].Distance_From_Chingola_km < view[best].Distance_From_Chingola_km
            THEN i ELSE best)

NSmallest1(view) == NSmallestScan(view, 2, 1)

\* df.nlargest(1, distance).iloc[0] on a non-empty frame (keep='first').
RECURSIVE NLargestScan(_, _, _)
NLargestScan(view, i, best) ==
    IF i > Len(view) THEN view[best]
    ELSE NLargestScan(view, i + 1,
            IF view[i].Distance_From_Chingola_km > view[best].Distance_From_Chingola_km
            THEN i ELSE best)

\* Faulty variant of NLargest1: keep='last', a later row at the same distance wins.
RECURSIVE NLargestScanLast(_, _, _)
NLargestScanLast(view, i, best) ==
    IF i > Len(view) THEN view[best]
    ELSE NLargestScanLast(view, i + 1,
            IF view[i].Distance_From_Chingola_km >= view[best].Distance_From_Chingola_km
            THEN i ELSE best)

NLargest1KeepLast(view) == NLargestScanLast(view, 2, 1)

NLargest1(view) == NLargestScan(view, 2, 1)

\* value_counts() of Primary_Commodity: the count of each non-missing value.
ValueCounts(view) ==
    LET col == Column(view, "Primary_Commodity")
    IN { Len(SelectSeq(col, LAMBDA x : x = c)) : c \in SeqToSet(DropNaCommodity(col)) }

\* Lines 312-332, the quick stats under the map.  value_counts().iloc[0] is
\* the largest count and raises IndexError when no row has a commodity.
QuickStats(view) ==
    IF view = << >>
    THEN [nearest |-> << >>, farthest |-> << >>, top_commodity |-> << >>,
          raised |-> FALSE]
    ELSE [nearest |-> <<NSmallest1(view)>>,
          farthest |-> <<NLargest1(view)>>,
          top_commodity |-> IF ValueCounts(view) = {} THEN << >>
                            ELSE <<CHOOSE m \in ValueCounts(view) :
                                      \A x \in ValueCounts(view) : x <= m>>,
          raised |-> ValueCounts(view) = {}]

\* ------------------------------------------------------- selection (tab 3)
\* Lines 441-443: rows is session_state.property_table['selection']['rows'];
\* df_filtered.iloc[selected_idx] raises IndexError past the end of the view.
ResolveSelection(view, rows) ==
    IF rows = << >>
    THEN [selected_property |-> << >>, raised |-> FALSE]
    ELSE IF rows[1] < Len(view)
         THEN [selected_property |-> <<view[rows[1] + 1]>>, raised |-> FALSE]
         ELSE [selected_property |-> << >>, raised |-> TRUE]

\* st.slider(min_value=0, max_value=M, value=M, step=50): the initial value on
\* the session's first run, the held position afterwards.
Slider(df, held, first) == IF first THEN SliderMax(df) ELSE held

\* -------------------------------------------------------------------- state
VARIABLES
    file,                  \* the CSV on disk: [exists, rows]
    loaded,                \* st.cache_data holds load_data's result
    df,                    \* the Record Store (the cached frame)
    load_error,            \* the st.error recorded with the cached result
    selected_provinces,    \* widget states kept by the session
    selected_districts,
    selected_commodities,
    selected_statuses,
    max_distance,
    property_table,        \* session_state.property_table selection rows
    available_districts,   \* options the district multiselect was built with
    districts_sent,        \* the district selection the browser sent last run
    df_filtered,           \* the Filtered View of the last run
    summary,               \* the summary cards of the last run (optional)
    nearest,               \* quick stats of the last run (optional each)
    farthest,
    top_commodity,
    table_shown,           \* st.dataframe was rendered in the last run
    selected_property,     \* the detail panel's record (optional)
    error_shown,           \* the fixed "not found" message is on the page
    page                   \* "init", "stopped", "done" or "IndexError"

vars ==
    <<file, loaded, df, load_error, selected_provinces, selected_districts,
      selected_commodities, selected_statuses, max_distance, property_table,
      available_districts, districts_sent, df_filtered, summary, nearest, farthest,
      top_commodity, table_shown, selected_property, error_shown, page>>

Init ==
    /\ file \in ([exists : {TRUE}, rows : Files]
                 \cup {[exists |-> FALSE, rows |-> << >>]})
    /\ loaded = FALSE
    /\ df = << >>
    /\ load_error = FALSE
    /\ selected_provinces = {}
    /\ selected_districts = {}
    /\ selected_commodities = {}
    /\ selected_statuses = {}
    /\ max_distance = 0
    /\ property_table = << >>
    /\ available_districts = << >>
    /\ districts_sent = {}
    /\ df_filtered = << >>
    /\ summary = << >>
    /\ nearest = << >>
    /\ farthest = << >>
    /\ top_commodity = << >>
    /\ table_shown = FALSE
    /\ selected_property = << >>
    /\ error_shown = FALSE
    /\ page = "init"

\* ------------------------------------------------------------ one script run
\* run_app from top to bottom, with the widget states the browser sends:
\* sp, sc, ss the province, commodity and status selections, sdHeld the held
\* district selection, mdHeld the held slider position, rows the held table
\* selection.
RunApp(sp, sdHeld, sc, ss, mdHeld, rows) ==
    LET res == IF loaded THEN [df |-> df, error |-> load_error]
               ELSE load_data(file)
    IN
    /\ loaded' = TRUE
    /\ load_error' = res.error
    /\ error_shown' = res.error
    /\ UNCHANGED file
    /\ IF res.df = << >>
       THEN \* df.empty: st.stop()
            /\ df' = res.df
            /\ page' = "stopped"
            /\ df_filtered' = << >>
            /\ summary' = << >>
            /\ nearest' = << >>
            /\ farthest' = << >>
            /\ top_commodity' = << >>
            /\ table_shown' = FALSE
            /\ selected_property' = << >>
            /\ UNCHANGED <<selected_provinces, selected_districts,
                           selected_commodities, selected_statuses,
                           max_distance, property_table, available_districts,
                           districts_sent>>
       ELSE LET opts == AvailableDistricts(res.df, sp)
                sd == Multiselect(opts, sdHeld, available_districts)
                md == Slider(res.df, mdHeld, ~loaded)
                applied == ApplyFilters(res.df, sp, sd, sc, ss, md)
                view == applied.view
                quick == QuickStats(view)
                sel == ResolveSelection(view, rows)
            IN
            /\ df' = applied.store
            /\ selected_provinces' = sp
            /\ available_districts' = opts
            /\ districts_sent' = sdHeld
            /\ selected_districts' = sd
            /\ selected_commodities' = sc
            /\ selected_statuses' = ss
            /\ max_distance' = md
            /\ df_filtered' = view
            /\ summary' = <<Summarize(view, res.df)>>
            /\ nearest' = quick.nearest
            /\ farthest' = quick.farthest
            /\ top_commodity' = quick.top_commodity
            /\ IF quick.raised
               THEN \* line 328 raised: the run ends before the tabs 2 and 3
                    /\ page' = "IndexError"
                    /\ table_shown' = FALSE
                    /\ selected_property' = << >>
                    /\ property_table' = rows
               ELSE IF view = << >>
               THEN \* no table: the session drops the unrendered widget's state
                    /\ page' = "done"
                    /\ table_shown' = FALSE
                    /\ selected_property' = << >>
                    /\ property_table' = << >>
               ELSE /\ page' = IF sel.raised THEN "IndexError" ELSE "done"
                    /\ table_shown' = TRUE
                    /\ selected_property' = sel.selected_property
                    /\ property_table' = rows

\* The sidebar was rendered by the last run.
SidebarShown == page \in {"done", "IndexError"}

\* ------------------------------------------------------------------ actions
\* The browser opens the page: the session's first run.
FirstRun ==
    /\ ~loaded
    /\ RunApp({}, {}, {}, {}, 0, << >>)

\* The user reruns the page without touching a widget.
Rerun ==
    /\ loaded
    /\ RunApp(selected_provinces, selected_districts, selected_commodities,
              selected_statuses, max_distance, property_table)

SelectProvinces ==
    /\ SidebarShown
    /\ \E P \in SUBSET SeqToSet(ProvinceOptions(df)) :
          /\ P # selected_provinces
          /\ RunApp(P, selected_districts, selected_commodities,
                    selected_statuses, max_distance, property_table)

SelectDistricts ==
    /\ SidebarShown
    /\ \E D \in SUBSET SeqToSet(available_districts) :
          /\ D # selected_districts
          /\ RunApp(selected_provinces, D, selected_commodities,
                    selected_statuses, max_distance, property_table)

SelectCommodities ==
    /\ SidebarShown
    /\ \E C \in SUBSET SeqToSet(CommodityOptions(df)) :
          /\ C # selected_commodities
          /\ RunApp(selected_provinces, selected_districts, C,
                    selected_statuses, max_distance, property_table)

SelectStatuses ==
    /\ SidebarShown
    /\ \E S \in SUBSET SeqToSet(StatusOptions(df)) :
          /\ S # selected_statuses
          /\ RunApp(selected_provinces, selected_districts,
                    selected_commodities, S, max_distance, property_table)

MoveSlider ==
    /\ SidebarShown
    /\ \E v \in SliderValues(df) :
          /\ v # max_distance
          /\ RunApp(selected_provinces, selected_districts,
                    selected_commodities, selected_statuses, v, property_table)

\* The user clicks a row of the table on the page.
SelectRow ==
    /\ table_shown
    /\ \E i \in 0..(Len(df_filtered) - 1) :
          /\ property_table # <<i>>
          /\ RunApp(selected_provinces, selected_districts,
                    selected_commodities, selected_statuses, max_distance, <<i>>)

\* The user clicks the selected row again (deselects).
DeselectRow ==
    /\ table_shown
    /\ property_table # << >>
    /\ RunApp(selected_provinces, selected_districts, selected_commodities,
              selected_statuses, max_distance, << >>)

\* Lines 239-240: the button's run reaches st.rerun(), which starts the script
\* again with the widget states as they are.
ClearAllFilters ==
    /\ SidebarShown
    /\ RunApp(selected_provinces, selected_districts, selected_commodities,
              selected_statuses, max_distance, property_table)

Next ==
    \/ FirstRun
    \/ Rerun
    \/ SelectProvinces
    \/ SelectDistricts
    \/ SelectCommodities
    \/ SelectStatuses
    \/ MoveSlider
    \/ SelectRow
    \/ DeselectRow
    \/ ClearAllFilters

Spec == Init /\ [][Next]_vars

\* =================================================================== claims
\* A record passes every active criterion of the last run.
Passes(r) ==
    /\ selected_provinces # {} => r.Province \in selected_provinces
    /\ selected_districts # {} => r.Clean_District \in selected_districts
    /\ selected_commodities # {} => r.Primary_Commodity \in selected_commodities
    /\ selected_statuses # {} => r.Status \in selected_statuses
    /\ r.Distance_From_Chingola_km <= max_distance * 10

NoSetSelected ==
    /\ selected_provinces = {}
    /\ selected_districts = {}
    /\ selected_commodities = {}
    /\ selected_statuses = {}

\* C1: after every run that reaches the filters, each record of the Filtered
\* View is a record of the Record Store and passes every active criterion:
\* province, district, commodity and status membership when the selection is
\* non-empty, and distance <= the slider's value (inclusive).
C1_ViewSound ==
    SidebarShown =>
        \A i \in 1..Len(df_filtered) :
            /\ df_filtered[i] \in SeqToSet(df)
            /\ Passes(df_filtered[i])

\* C1 witness: all four selections and a lowered slider are active, and the
\* view holds a record whose distance is exactly the threshold while the
\* store holds more.
C1_Witness ==
    /\ page = "done"
    /\ selected_provinces # {} /\ selected_districts # {}
    /\ selected_commodities # {} /\ selected_statuses # {}
    /\ max_distance < SliderMax(df)
    /\ Len(df_filtered) < Len(df)
    /\ \E i \in 1..Len(df_filtered) :
          df_filtered[i].Distance_From_Chingola_km = max_distance * 10

\* C2 (as claimed): with nothing selected and the slider at its initial value
\* the Filtered View is the whole Record Store, in order.
C2_NoCriteriaFullStore ==
    (SidebarShown /\ NoSetSelected /\ max_distance = SliderMax(df))
        => df_filtered = df

C4_DistrictOptions ==
    SidebarShown =>
        SeqToSet(available_districts) =
            IF selected_provinces # {}
            THEN { df[i].Clean_District :
                     i \in { j \in 1..Len(df) : df[j].Province \in selected_provinces } }
            ELSE { df[i].Clean_District : i \in 1..Len(df) }

\* C4 witness: a province is selected, the options are fewer than the
\* store's districts, and another filter has narrowed the view so that its
\* districts are not the options.
C4_Witness ==
    /\ page = "done"
    /\ selected_provinces # {}
    /\ available_districts # << >>
    /\ SeqToSet(available_districts) # { df[i].Clean_District : i \in 1..Len(df) }
    /\ selected_districts = {}
    /\ SeqToSet(available_districts)
          # { df_filtered[i].Clean_District : i \in 1..Len(df_filtered) }

\* C5: a run whose Filtered View is empty completes without an exception;
\* the count is 0, both means are the "N/A" sentinel, both distinct counts
\* are 0, and no nearest, farthest or top commodity is computed.
C5_EmptyViewSummary ==
    (SidebarShown /\ df_filtered = << >>) =>
        /\ page = "done"
        /\ Len(summary) = 1
        /\ summary[1].count = 0
        /\ summary[1].avg_distance = NA
        /\ summary[1].avg_time = NA
        /\ summary[1].unique_commodities = 0
        /\ summary[1].unique_provinces = 0
        /\ nearest = << >>
        /\ farthest = << >>
        /\ top_commodity = << >>

\* C5 witness: a non-empty store filtered down to nothing.
C5_Witness ==
    /\ page = "done"
    /\ df # << >>
    /\ df_filtered = << >>
    /\ summary # << >>

\* C6 (as claimed): an empty store, from a missing file or from rows that all
\* failed coercion, ends the run in the "no data" state with the fixed error
\* message on the page and nothing else produced.
C6_EmptyStoreNoData ==
    (loaded /\ df = << >>) =>
        /\ page = "stopped"
        /\ error_shown
        /\ summary = << >>
        /\ ~table_shown
        /\ df_filtered = << >>
        /\ nearest = << >> /\ farthest = << >>

\* A float is finite and within lo..hi degrees.
InRange(x, lo, hi) == x.k = "num" /\ lo <= x.v /\ x.v <= hi

\* A coordinate cell holds a finite number within lo..hi degrees.
CellInRange(c, lo, hi) == c.txt = "num" /\ lo <= c.v /\ c.v <= hi

\* C7 (as claimed): after load every record's coordinates are finite and
\* within geographic bounds; exactly the rows with such coordinates are kept.
C7_ValidCoordinates ==
    loaded =>
        /\ \A i \in 1..Len(df) :
              /\ InRange(df[i].Latitude, -90, 90)
              /\ InRange(df[i].Longitude, -180, 180)
        /\ \A i \in 1..Len(file.rows) :
              (\E j \in 1..Len(df) : df[j].idx = i - 1)
                  <=> (/\ CellInRange(file.rows[i].Latitude, -90, 90)
                       /\ CellInRange(file.rows[i].Longitude, -180, 180))

\* A coordinate cell that parses as a number (NaN excluded): numeric text,
\* infinity included.
CellIsNumber(c) == c.txt \in {"num", "inf"}

\* C7 (amended): after load no record's latitude or longitude is NaN; a row
\* is dropped exactly when its latitude or longitude cell is missing or
\* non-numeric, and every other row is kept, in file order, with its own
\* fields (infinite and out-of-range coordinates included).
C7_NoNaNCoordinates ==
    loaded =>
        /\ \A i \in 1..Len(df) :
              /\ df[i].Latitude.k # "nan" /\ df[i].Longitude.k # "nan"
              /\ df[i].idx + 1 \in 1..Len(file.rows)
              /\ df[i].Property_Name = file.rows[df[i].idx + 1].Property_Name
              /\ \A j \in 1..Len(df) : i < j => df[i].idx < df[j].idx
        /\ \A i \in 1..Len(file.rows) :
              (\E j \in 1..Len(df) : df[j].idx = i - 1)
                  <=> (/\ CellIsNumber(file.rows[i].Latitude)
                       /\ CellIsNumber(file.rows[i].Longitude))

\* C7 witness: a loaded file of which one row was dropped for its missing
\* longitude and the row with the infinite latitude was kept.
C7_Witness ==
    /\ loaded
    /\ Len(df) = 1
    /\ Len(file.rows) = 2
    /\ \E i \in 1..2 : file.rows[i].Longitude = EmptyCell
    /\ df[1].Latitude = Inf

\* The records of the store passing the last run's criteria, taken at once.
Expected == SelectSeq(df, Passes)

\* C8: once loaded the Record Store never changes, whatever the run, and the
\* Filtered View of every run is the store's records passing that run's
\* criteria, in store order, whatever the earlier runs produced.
C8_StoreImmutable ==
    [][ /\ loaded => df' = df
        /\ SidebarShown' => df_filtered' = Expected' ]_vars

\* C8 witness: a run on a store of several records whose view is narrower
\* than the store.
C8_Witness ==
    /\ page = "done"
    /\ Len(df) >= 2
    /\ df_filtered # << >>
    /\ Len(df_filtered) < Len(df)

Dist(i) == df_filtered[i].Distance_From_Chingola_km

\* C9: on a non-empty view, nearest is the first record in view order at the
\* minimum distance and farthest the first at the maximum distance; on a
\* one-record view both are that record.
C9_NearestFarthestFirst ==
    (SidebarShown /\ df_filtered # << >>) =>
        /\ \E i \in 1..Len(df_filtered) :
              /\ nearest = <<df_filtered[i]>>
              /\ \A j \in 1..Len(df_filtered) : Dist(j) >= Dist(i)
              /\ \A j \in 1..(i - 1) : Dist(j) > Dist(i)
        /\ \E i \in 1..Len(df_filtered) :
              /\ farthest = <<df_filtered[i]>>
              /\ \A j \in 1..Len(df_filtered) : Dist(j) <= Dist(i)
              /\ \A j \in 1..(i - 1) : Dist(j) < Dist(i)
        /\ Len(df_filtered) = 1 =>
              (nearest = <<df_filtered[1]>> /\ farthest = <<df_filtered[1]>>)

\* C9 witness: a view of several records all at one distance, which is both
\* the minimum and the maximum; the first record is nearest and farthest.
C9_Witness ==
    /\ SidebarShown
    /\ Len(df_filtered) >= 2
    /\ \A j \in 1..Len(df_filtered) : Dist(j) = Dist(1)
    /\ nearest = <<df_filtered[1]>>
    /\ farthest = <<df_filtered[1]>>

\* C10: the districts filtered on are among the district options of the same
\* run; a district sent by the browser that is no option any more is not
\* filtered on, and the province and district selections together match at
\* least one record of the store.
C10_DistrictsWithinOptions ==
    SidebarShown =>
        /\ selected_districts \subseteq SeqToSet(available_districts)
        /\ \A d \in districts_sent :
              d \notin SeqToSet(available_districts) => d \notin selected_districts
        /\ \E i \in 1..Len(df) :
              /\ selected_provinces # {} => df[i].Province \in selected_provinces
              /\ selected_districts # {} => df[i].Clean_District \in selected_districts

\* C10 witness: the browser sent a district that the changed province
\* selection no longer offers, and the run completed with a non-empty view.
C10_Witness ==
    /\ page = "done"
    /\ selected_provinces # {}
    /\ \E d \in districts_sent : d \notin SeqToSet(available_districts)
    /\ df_filtered # << >>

\* Some filter is active on the page: a selection is non-empty or the slider
\* is below its initial value.
FilterActive ==
    /\ SidebarShown
    /\ \/ ~NoSetSelected
       \/ max_distance # SliderMax(df)

\* C11 (as claimed): the run that follows a press of "Clear All Filters" made
\* while some filter is active has no province, district, commodity or
\* status selected and the slider back at its initial maximum, so its view
\* is the store's records within that distance.
C11_ClearAllFiltersClears ==
    [][ (FilterActive /\ ClearAllFilters) =>
            /\ NoSetSelected'
            /\ max_distance' = SliderMax(df')
            /\ df_filtered' =
                 SelectSeq(df', LAMBDA r :
                     r.Distance_From_Chingola_km <= SliderMax(df') * 10) ]_vars

============================================================================
